---- MODULE Spec2Model ----
(***************************************************************************)
(* Nyx: identity and file-relay service (app.py).                          *)
(*                                                                         *)
(* The listing holds two stacks.  The async handlers (signup, login) work  *)
(* on the MongoDB collection users_collection and issue JWTs.  The         *)
(* synchronous handlers (profile, send_file, received_files,               *)
(* download_file) work on the in-memory dict users and the upload folder.  *)
(* Each handler is modelled from its body; an async handler is split at    *)
(* the await that separates its store operations.                          *)
(***************************************************************************)
EXTENDS Integers, Sequences, FiniteSets, TLC

(* ------------------------------ bounds -------------------------------- *)
NumProcs == 2        \* request workers running concurrently
MaxDocs == 2         \* documents the collection may hold
MaxTime == 3         \* clock values of the token exercise
TokenTTL == 2        \* the "configured duration" the Token lifecycle speaks of
MaxSends == 2        \* sends that get past the checks of send_file

Procs == 1..NumProcs

(* ------------------------------ strings ------------------------------- *)
\* Every Python str that is used as a header value, a form field or a dict
\* key is a value of one shape: kind "none" is None, kind "str" is a plain
\* string, kind "jwt" is the compact serialisation header.payload.signature.
NoOid == <<"oid", 0>>
NoSig == [key |-> "", alg |-> "", user_id |-> NoOid, exp |-> 0]
NoExp == 0

None == [kind |-> "none", text |-> "", alg |-> "", user_id |-> NoOid, exp |-> NoExp, sig |-> NoSig]

Raw(s) == [kind |-> "str", text |-> s, alg |-> "", user_id |-> NoOid, exp |-> NoExp, sig |-> NoSig]

\* str(ObjectId): the hexadecimal rendering of the id
StrOid(n) == <<"oid", n>>

(* --------------------------- configuration ---------------------------- *)
SECRET_KEY == "k1"
ALGORITHM == "HS256"
OtherKey == "k2"

(* --------------------------- password hasher -------------------------- *)
\* bcrypt digest of a password under a salt
Digest(salt, password) == <<salt, password>>

\* bcrypt.hashpw(password, salt): the hash carries its salt
hashpw(password, salt) == [salt |-> salt, digest |-> Digest(salt, password)]

\* hash_password: bcrypt.gensalt() draws the salt; a fresh salt is one no
\* earlier hash used
hash_password(password, salt) == hashpw(password, salt)

\* a checkpw that accepts every password
verify_password_always(plain_password, hashed_password) == TRUE

\* bcrypt.checkpw recomputes the digest under the salt stored in the hash
verify_password(plain_password, hashed_password) ==
    hashed_password.digest = Digest(hashed_password.salt, plain_password)

(* ------------------------------- tokens ------------------------------- *)
\* the signature is the MAC, under a key, of the header and the payload
Mac(key, alg, user_id, exp) == [key |-> key, alg |-> alg, user_id |-> user_id, exp |-> exp]

\* jwt.encode({"user_id": user_id}, SECRET_KEY, algorithm=ALGORITHM)
create_jwt(user_id) ==
    [kind |-> "jwt", text |-> "", alg |-> ALGORITHM, user_id |-> user_id,
     exp |-> NoExp, sig |-> Mac(SECRET_KEY, ALGORITHM, user_id, NoExp)]

Payload(user_id) == [ok |-> TRUE, user_id |-> user_id, status |-> 200, detail |-> ""]
Raise401(detail) == [ok |-> FALSE, user_id |-> NoOid, status |-> 401, detail |-> detail]

\* a decode that skips the signature check
verify_jwt_nosig(token, time) ==
    IF token.kind # "jwt" \/ token.alg # ALGORITHM
    THEN Raise401("Invalid token.")
    ELSE IF token.exp # NoExp /\ token.exp <= time
         THEN Raise401("Token has expired.")
         ELSE Payload(token.user_id)

\* jwt.decode(token, SECRET_KEY, algorithms=[ALGORITHM]) at clock value time:
\* structure and algorithm, then the signature, then the exp claim if any
verify_jwt(token, time) ==
    IF token.kind # "jwt" \/ token.alg # ALGORITHM
    THEN Raise401("Invalid token.")
    ELSE IF token.sig # Mac(SECRET_KEY, token.alg, token.user_id, token.exp)
         THEN Raise401("Invalid token.")
         ELSE IF token.exp # NoExp /\ token.exp <= time
              THEN Raise401("Token has expired.")
              ELSE Payload(token.user_id)

(* ------------------------------- inputs ------------------------------- *)
LongName == "aaaaaaaaaabbbbbbbbbbccccccccccddddddddddeeeeeeeeeef"
Usernames == {"alice", "bob"}
SignupUsernames == Usernames \cup {LongName}
Passwords == {"password123", "wrongpass"}
SignupPasswords == Passwords \cup {"short"}

(* ------------------------------ filenames ----------------------------- *)
\* a filename is the sequence of its characters
F_notes == <<"n", ".", "t", "x", "t">>
F_upper == <<"n", ".", "T", "X", "T">>
F_exe == <<"v", ".", "e", "x", "e">>
F_noext == <<"n">>
F_empty == <<>>
F_path == <<".", ".", "/", "a", " ", "b", ".", "p", "d", "f">>

ALLOWED_EXTENSIONS ==
    { <<"t", "x", "t">>, <<"p", "d", "f">>, <<"p", "n", "g">>,
      <<"j", "p", "g">>, <<"j", "p", "e", "g">>, <<"g", "i", "f">> }

\* str.lower() on the characters in use
LowerChar(c) == IF c = "T" THEN "t" ELSE IF c = "X" THEN "x" ELSE c

Lower(s) == [i \in 1..Len(s) |-> LowerChar(s[i])]

HasDot(s) == \E i \in 1..Len(s) : s[i] = "."

LastDot(s) == CHOOSE i \in 1..Len(s) : s[i] = "." /\ \A j \in (i+1)..Len(s) : s[j] # "."

\* filename.rsplit('.', 1)[1]
Ext(s) == SubSeq(s, LastDot(s) + 1, Len(s))

allowed_file(filename) == HasDot(filename) /\ Lower(Ext(filename)) \in ALLOWED_EXTENSIONS

\* werkzeug.utils.secure_filename: path separators become blanks, blank runs
\* are joined with "_", characters outside [A-Za-z0-9_.-] are dropped, and
\* leading and trailing "." and "_" are stripped
SafeChars ==
    {"n", "v", "a", "b", "t", "x", "e", "p", "d", "f", "g", "i", "j", "T", "X", ".", "_", "-"}

IsBlank(c) == c \in {" ", "/"}

\* "_".join(filename.replace("/", " ").split())
RECURSIVE JoinBlanks(_)
JoinBlanks(s) ==
    IF s = <<>> THEN <<>>
    ELSE IF IsBlank(Head(s))
         THEN JoinBlanks(Tail(s))
         ELSE <<Head(s)>> \o
              ( IF Len(s) > 1 /\ IsBlank(s[2]) /\ \E k \in 2..Len(s) : ~IsBlank(s[k])
                THEN <<"_">> ELSE <<>> ) \o
              JoinBlanks(Tail(s))

IsSafeChar(c) == c \in SafeChars

RECURSIVE StripLeft(_)
StripLeft(s) ==
    IF s # <<>> /\ Head(s) \in {".", "_"} THEN StripLeft(Tail(s)) ELSE s

RECURSIVE StripRight(_)
StripRight(s) ==
    IF s # <<>> /\ s[Len(s)] \in {".", "_"} THEN StripRight(SubSeq(s, 1, Len(s) - 1)) ELSE s

secure_filename(filename) ==
    StripRight(StripLeft(SelectSeq(JoinBlanks(filename), IsSafeChar)))

UPLOAD_FOLDER == <<"u", "p", "l", "o", "a", "d", "s", "/">>

\* os.path.join(app.config['UPLOAD_FOLDER'], filename)
PathJoin(folder, filename) == folder \o filename

(* -------------------------------- state ------------------------------- *)
VARIABLES
    users_collection,   \* db.users: the documents in insertion (natural) order
    users,              \* the in-memory dict users: key -> [files |-> list]
    uploads,            \* the upload folder: path -> bytes
    pc,                 \* per worker: "idle", or the await a signup is suspended at
    user,               \* per worker: the SignupModel of the signup in flight
    last,               \* the request answered last, with its response
    issued,             \* history: the tokens login has returned
    signedUp,           \* history: the signups answered 200, with the id returned
    sending,            \* per worker: the send suspended between file.save and the append
    delivered,          \* history: the sends answered 200, in the order they completed
    now,                \* the clock jwt.decode reads
    probe               \* the token exercise: a token, handed around, and its verification

vars ==
    <<users_collection, users, uploads, pc, user, last, issued, signedUp, sending,
      delivered, now, probe>>

USERNAME_MAX_LENGTH == 50
PASSWORD_MIN_LENGTH == 8

NoUser == [username |-> "", password |-> ""]
NoHash == [salt |-> 0, digest |-> <<0, "">>]
NoDoc == [_id |-> 0, username |-> "", hashed_password |-> NoHash]

NoFile == [present |-> FALSE, filename |-> <<>>, bytes |-> ""]
FileStorage(filename, bytes) == [present |-> TRUE, filename |-> filename, bytes |-> bytes]

NoSend == [recipient |-> None, file |-> NoFile, token |-> None]

NoReq ==
    [op |-> "none", username |-> "", password |-> "", token |-> None,
     recipient |-> None, file |-> NoFile, filename |-> <<>>]

\* a response: the status and the JSON body's fields (or the bytes served)
Resp(status, detail) ==
    [status |-> status, detail |-> detail, message |-> "", user_id |-> NoOid,
     token |-> None, username |-> None, files |-> <<>>, bytes |-> ""]

HTTPException(status, detail) == Resp(status, detail)

NoProbe == [token |-> None, user_id |-> NoOid, issued_at |-> 0, altered |-> FALSE,
            verified |-> FALSE, verified_at |-> 0, result |-> Raise401("")]

Init ==
    /\ users_collection = <<>>
    /\ users = <<>>
    /\ uploads = <<>>
    /\ pc = [p \in Procs |-> "idle"]
    /\ user = [p \in Procs |-> NoUser]
    /\ last = [req |-> NoReq, resp |-> Resp(0, "")]
    /\ issued = {}
    /\ signedUp = {}
    /\ sending = [p \in Procs |-> NoSend]
    /\ delivered = <<>>
    /\ now = 0
    /\ probe = NoProbe

(* --------------------------- credential store ------------------------- *)
Matches(coll, username) == {i \in 1..Len(coll) : coll[i].username = username}

Min(S) == CHOOSE i \in S : \A j \in S : i <= j

\* a lookup that finds nothing
find_one_never(coll, username) == NoDoc

\* users_collection.find_one({"username": username}): the first match in
\* natural order, or None
find_one(coll, username) ==
    IF Matches(coll, username) = {} THEN NoDoc ELSE coll[Min(Matches(coll, username))]

\* users_collection.insert_one(user_data): the store assigns a fresh _id
insert_one(coll, user_data) ==
    Append(coll, [_id |-> Len(coll) + 1, username |-> user_data.username,
                  hashed_password |-> user_data.hashed_password])

\* SignupModel: username max_length=50, password min_length=8
SignupModel(u) ==
    Len(u.username) <= USERNAME_MAX_LENGTH /\ Len(u.password) >= PASSWORD_MIN_LENGTH

InFlight == {q \in Procs : pc[q] = "signup_insert"}

(* ------------------------------- signup ------------------------------- *)
\* POST /signup up to the await of insert_one: request validation, then
\* find_one on the username
Signup(p, u) ==
    /\ pc[p] = "idle"
    /\ UNCHANGED <<users_collection, users, uploads, issued, signedUp, now, probe>>
    /\ UNCHANGED <<sending, delivered>>
    /\ LET req == [NoReq EXCEPT !.op = "signup", !.username = u.username,
                                !.password = u.password]
       IN  IF ~SignupModel(u)
           THEN /\ last' = [req |-> req, resp |-> HTTPException(422, "validation error")]
                /\ UNCHANGED <<pc, user>>
           ELSE IF find_one(users_collection, u.username) # NoDoc
                THEN /\ last' = [req |-> req,
                                 resp |-> HTTPException(400, "Username is already taken.")]
                     /\ UNCHANGED <<pc, user>>
                ELSE /\ Len(users_collection) + Cardinality(InFlight) < MaxDocs
                     /\ pc' = [pc EXCEPT ![p] = "signup_insert"]
                     /\ user' = [user EXCEPT ![p] = u]
                     /\ UNCHANGED last

\* POST /signup from hash_password to the response: insert_one and the 200
SignupInsert(p) ==
    /\ pc[p] = "signup_insert"
    /\ LET hashed_password == hash_password(user[p].password, Len(users_collection) + 1)
           user_data == [username |-> user[p].username, hashed_password |-> hashed_password]
           coll == insert_one(users_collection, user_data)
           inserted_id == coll[Len(coll)]._id
           req == [NoReq EXCEPT !.op = "signup", !.username = user[p].username,
                                !.password = user[p].password]
       IN  /\ users_collection' = coll
           /\ last' = [req |-> req,
                       resp |-> [Resp(200, "") EXCEPT
                                    !.message = "User registered successfully",
                                    !.user_id = StrOid(inserted_id)]]
           /\ signedUp' = signedUp \cup
                  {[username |-> user[p].username, password |-> user[p].password,
                    user_id |-> StrOid(inserted_id)]}
    /\ pc' = [pc EXCEPT ![p] = "idle"]
    /\ user' = [user EXCEPT ![p] = NoUser]
    /\ UNCHANGED <<users, uploads, issued, now, probe>>
    /\ UNCHANGED <<sending, delivered>>

(* -------------------------------- login ------------------------------- *)
\* the response of POST /login on the collection as find_one reads it
login(coll, credentials) ==
    LET doc == find_one(coll, credentials.username)
    IN  IF doc = NoDoc \/ ~verify_password(credentials.password, doc.hashed_password)
        THEN HTTPException(401, "Invalid username or password.")
        ELSE [Resp(200, "") EXCEPT !.message = "Login successful",
                                   !.token = create_jwt(StrOid(doc._id))]

Login(p, credentials) ==
    /\ pc[p] = "idle"
    /\ LET resp == login(users_collection, credentials)
       IN  /\ last' = [req |-> [NoReq EXCEPT !.op = "login",
                                             !.username = credentials.username,
                                             !.password = credentials.password],
                       resp |-> resp]
           /\ issued' = IF resp.status = 200 THEN issued \cup {resp.token} ELSE issued
    /\ UNCHANGED <<users_collection, users, uploads, pc, user, signedUp, now, probe>>
    /\ UNCHANGED <<sending, delivered>>

(* ------------------------------ auth gate ----------------------------- *)
\* a gate that only asks for a token to be present
Unauthorized_absent_only(dict, token) == token = None

\* `not token or token not in users`
Unauthorized(dict, token) ==
    token = None \/ token = Raw("") \/ token \notin DOMAIN dict

\* the 500 of an exception no handler catches
InternalServerError == Resp(500, "Internal Server Error")

\* what a synchronous handler leaves behind: the response and the two stores
Outcome(resp, dict, folder) == [resp |-> resp, users |-> dict, uploads |-> folder]

(* ------------------------------- profile ------------------------------ *)
\* GET /profile
profile(dict, token) ==
    IF Unauthorized(dict, token)
    THEN Resp(401, "Unauthorized")
    ELSE IF token \notin DOMAIN dict
         THEN InternalServerError          \* users[token] raises KeyError
         ELSE [Resp(200, "") EXCEPT !.username = token]

Profile(token) ==
    /\ last' = [req |-> [NoReq EXCEPT !.op = "profile", !.token = token],
                resp |-> profile(users, token)]
    /\ UNCHANGED <<users_collection, users, uploads, pc, user, issued, signedUp, now, probe>>
    /\ UNCHANGED <<sending, delivered>>

(* ------------------------------ send_file ----------------------------- *)
\* a save that writes nothing
file_save_lost(folder, file_path, bytes) == folder

\* file.save(file_path): the file at the path is created or overwritten
file_save(folder, file_path, bytes) ==
    [k \in DOMAIN folder \cup {file_path} |-> IF k = file_path THEN bytes ELSE folder[k]]

\* an assignment of a new list in place of the append
mailbox_append_replace(dict, recipient_username, record) ==
    [dict EXCEPT ![recipient_username].files = <<record>>]

\* an insert at the front in place of the append
mailbox_append_front(dict, recipient_username, record) ==
    [dict EXCEPT ![recipient_username].files = <<record>> \o @]

\* users[recipient_username]["files"].append(record)
mailbox_append(dict, recipient_username, record) ==
    [dict EXCEPT ![recipient_username].files = Append(@, record)]

NoRejection == Resp(0, "")

\* POST /send_file, the checks before file.save: the response of the first
\* one that fails, or NoRejection
send_rejection(dict, token, recipient_username, file) ==
    IF Unauthorized(dict, token)
    THEN Resp(401, "Unauthorized")
    ELSE IF recipient_username \notin DOMAIN dict
    THEN Resp(400, "Recipient user not found")
    ELSE IF ~file.present
    THEN Resp(400, "No file part")
    ELSE IF file.filename = <<>>
    THEN Resp(400, "No selected file")
    ELSE IF ~allowed_file(file.filename)
    THEN Resp(400, "File not allowed")
    ELSE IF secure_filename(file.filename) = <<>>
    THEN InternalServerError               \* file.save on the folder itself raises
    ELSE NoRejection

\* the FileRecord of a file: its sanitized name and its path in the folder
FileRecord(file) ==
    [filename |-> secure_filename(file.filename),
     filepath |-> PathJoin(UPLOAD_FOLDER, secure_filename(file.filename))]

\* POST /send_file
send_file(dict, folder, token, recipient_username, file) ==
    IF send_rejection(dict, token, recipient_username, file) # NoRejection
    THEN Outcome(send_rejection(dict, token, recipient_username, file), dict, folder)
    ELSE Outcome(
           [Resp(200, "") EXCEPT !.message = "File sent successfully!"],
           mailbox_append(dict, recipient_username, FileRecord(file)),
           file_save(folder, FileRecord(file).filepath, file.bytes))

Delivery(recipient_username, file) ==
    [recipient |-> recipient_username, filename |-> secure_filename(file.filename),
     bytes |-> file.bytes]

SendFile(token, recipient_username, file) ==
    /\ LET out == send_file(users, uploads, token, recipient_username, file)
       IN  /\ last' = [req |-> [NoReq EXCEPT !.op = "send_file", !.token = token,
                                             !.recipient = recipient_username,
                                             !.file = file],
                       resp |-> out.resp]
           /\ users' = out.users
           /\ uploads' = out.uploads
           /\ delivered' = IF out.resp.status = 200
                           THEN Append(delivered, Delivery(recipient_username, file))
                           ELSE delivered
    /\ UNCHANGED <<users_collection, pc, user, issued, signedUp, sending, now, probe>>

(* --------------------------- received_files --------------------------- *)
\* a listing that reads the mailbox of some user, not the caller's
received_files_any(dict, token) ==
    IF Unauthorized(dict, token)
    THEN Resp(401, "Unauthorized")
    ELSE [Resp(200, "") EXCEPT
            !.files = dict[CHOOSE k \in DOMAIN dict : \A j \in DOMAIN dict :
                                  Len(dict[j].files) <= Len(dict[k].files)].files]

\* GET /received_files
received_files(dict, token) ==
    IF Unauthorized(dict, token)
    THEN Resp(401, "Unauthorized")
    ELSE IF token \notin DOMAIN dict
         THEN InternalServerError          \* users[token] raises KeyError
         ELSE [Resp(200, "") EXCEPT !.files = dict[token].files]

ReceivedFiles(token) ==
    /\ last' = [req |-> [NoReq EXCEPT !.op = "received_files", !.token = token],
                resp |-> received_files(users, token)]
    /\ UNCHANGED <<users_collection, users, uploads, pc, user, issued, signedUp, now, probe>>
    /\ UNCHANGED <<sending, delivered>>

(* ---------------------------- download_file --------------------------- *)
\* a download behind a gate that no caller passes
download_file_gated(folder, filename) == Resp(401, "Unauthorized")

\* GET /download/<filename>: send_from_directory(UPLOAD_FOLDER, filename)
download_file(folder, filename) ==
    IF PathJoin(UPLOAD_FOLDER, filename) \in DOMAIN folder
    THEN [Resp(200, "") EXCEPT !.bytes = folder[PathJoin(UPLOAD_FOLDER, filename)]]
    ELSE Resp(404, "Not Found")

DownloadFile(filename) ==
    /\ last' = [req |-> [NoReq EXCEPT !.op = "download_file", !.filename = filename],
                resp |-> download_file(uploads, filename)]
    /\ UNCHANGED <<users_collection, users, uploads, pc, user, issued, signedUp, now, probe>>
    /\ UNCHANGED <<sending, delivered>>

(* ------------------------------- clients ------------------------------ *)
\* a signature made without SECRET_KEY
ForgedToken(n) ==
    [create_jwt(StrOid(n)) EXCEPT !.sig = Mac(OtherKey, ALGORITHM, StrOid(n), NoExp)]

\* what a client can put in the token header: nothing, the empty string, a
\* username, a token login returned, a token it signed itself
TokenInputs == {None, Raw(""), Raw("alice"), ForgedToken(1)} \cup issued

RecipientInputs == {Raw("bob"), Raw("carol")}

FileInputs ==
    { NoFile, FileStorage(F_empty, "A"), FileStorage(F_notes, "A"),
      FileStorage(F_exe, "A"), FileStorage(F_noext, "A") }

DownloadInputs == {F_notes, F_exe}

SignupInputs == [username : SignupUsernames, password : SignupPasswords]

LoginInputs == [username : Usernames, password : Passwords]

\* the async handlers run on a worker and are interleaved at their awaits;
\* a synchronous handler runs to completion
Step(p) ==
    \/ \E u \in SignupInputs : Signup(p, u)
    \/ SignupInsert(p)
    \/ \E c \in LoginInputs : Login(p, c)

Next ==
    \/ \E p \in Procs : Step(p)
    \/ \E t \in TokenInputs : Profile(t)
    \/ \E t \in TokenInputs, r \in RecipientInputs, f \in FileInputs : SendFile(t, r, f)
    \/ \E t \in TokenInputs : ReceivedFiles(t)
    \/ \E f \in DownloadInputs : DownloadFile(f)

Spec == Init /\ [][Next]_vars

\* the same handlers with one request at a time: a request is taken up only
\* when no other one is suspended
Quiet(p) == \A q \in Procs \ {p} : pc[q] = "idle"

NextSeq ==
    \/ \E p \in Procs : Quiet(p) /\ \E u \in SignupInputs : Signup(p, u)
    \/ \E p \in Procs : Quiet(p) /\ SignupInsert(p)
    \/ \E p \in Procs : Quiet(p) /\ \E c \in LoginInputs : Login(p, c)
    \/ InFlight = {} /\ \E t \in TokenInputs : Profile(t)
    \/ InFlight = {} /\ \E t \in TokenInputs, r \in RecipientInputs, f \in FileInputs :
                            SendFile(t, r, f)
    \/ InFlight = {} /\ \E t \in TokenInputs : ReceivedFiles(t)
    \/ InFlight = {} /\ \E f \in DownloadInputs : DownloadFile(f)

SpecSeq == Init /\ [][NextSeq]_vars

(* --------------------------- token exercise --------------------------- *)
\* create_jwt and verify_jwt applied to the ids the store can assign, with the
\* token's signature replaced on the way and the clock running
Signatures ==
    {Mac(k, ALGORITHM, StrOid(n), NoExp) : k \in {SECRET_KEY, OtherKey}, n \in 1..MaxDocs}
        \cup {NoSig}

Issue(n) ==
    /\ probe = NoProbe
    /\ probe' = [NoProbe EXCEPT !.token = create_jwt(StrOid(n)), !.user_id = StrOid(n),
                                !.issued_at = now]
    /\ UNCHANGED <<users_collection, users, uploads, pc, user, last, issued, signedUp, now>>
    /\ UNCHANGED <<sending, delivered>>

AlterSignature(sig) ==
    /\ probe.token # None
    /\ ~probe.altered
    /\ sig # probe.token.sig
    /\ probe' = [probe EXCEPT !.token.sig = sig, !.altered = TRUE, !.verified = FALSE,
                              !.verified_at = 0, !.result = Raise401("")]
    /\ UNCHANGED <<users_collection, users, uploads, pc, user, last, issued, signedUp, now>>
    /\ UNCHANGED <<sending, delivered>>

Tick ==
    /\ now < MaxTime
    /\ now' = now + 1
    /\ UNCHANGED <<users_collection, users, uploads, pc, user, last, issued, signedUp, probe>>
    /\ UNCHANGED <<sending, delivered>>

Verify ==
    /\ probe.token # None
    /\ probe' = [probe EXCEPT !.verified = TRUE, !.verified_at = now,
                              !.result = verify_jwt(probe.token, now)]
    /\ UNCHANGED <<users_collection, users, uploads, pc, user, last, issued, signedUp, now>>
    /\ UNCHANGED <<sending, delivered>>

NextJwt ==
    \/ \E n \in 1..MaxDocs : Issue(n)
    \/ \E sig \in Signatures : AlterSignature(sig)
    \/ Tick
    \/ Verify

SpecJwt == Init /\ [][NextJwt]_vars

(* ------------------------- signup validation -------------------------- *)
\* signup applied to usernames and passwords at both ends of the lengths
\* SignupModel speaks of
ValidationInputs ==
    { [username |-> "", password |-> "password123"],
      [username |-> "", password |-> "short"],
      [username |-> "alice", password |-> "password123"],
      [username |-> "alice", password |-> "short"],
      [username |-> "bob", password |-> "wrongpass"],
      [username |-> LongName, password |-> "password123"] }

NextSignup ==
    \E p \in Procs :
        \/ \E u \in ValidationInputs : Signup(p, u)
        \/ SignupInsert(p)

SpecSignup == Init /\ [][NextSignup]_vars

(* ------------------------------ file relay ---------------------------- *)
\* The synchronous handlers read and extend users[key]["files"], and profile
\* answers the key as the username: they work on mailboxes keyed by username
\* that some registration has created.  No handler of the listing creates
\* one.  Here the mailbox of a user is created as the registry of the
\* specification describes it (empty, at registration), and the handlers run
\* one thread per request: a send is suspended between file.save and the
\* append to the mailbox.
Register(username) ==
    /\ Raw(username) \notin DOMAIN users
    /\ users' = [k \in DOMAIN users \cup {Raw(username)} |->
                    IF k = Raw(username) THEN [files |-> <<>>] ELSE users[k]]
    /\ UNCHANGED <<users_collection, uploads, pc, user, last, issued, signedUp, sending,
                   delivered, now, probe>>

Sending == {q \in Procs : pc[q] = "send_append"}

\* POST /send_file up to and including file.save
SendStart(p, token, recipient_username, file) ==
    /\ pc[p] = "idle"
    /\ IF send_rejection(users, token, recipient_username, file) # NoRejection
       THEN /\ last' = [req |-> [NoReq EXCEPT !.op = "send_file", !.token = token,
                                              !.recipient = recipient_username,
                                              !.file = file],
                        resp |-> send_rejection(users, token, recipient_username, file)]
            /\ UNCHANGED <<uploads, pc, sending>>
       ELSE /\ Len(delivered) + Cardinality(Sending) < MaxSends
            /\ uploads' = file_save(uploads, FileRecord(file).filepath, file.bytes)
            /\ pc' = [pc EXCEPT ![p] = "send_append"]
            /\ sending' = [sending EXCEPT ![p] =
                              [recipient |-> recipient_username, file |-> file,
                               token |-> token]]
            /\ UNCHANGED last
    /\ UNCHANGED <<users_collection, users, user, issued, signedUp, delivered, now, probe>>

\* POST /send_file from the append to the response
SendAppend(p) ==
    /\ pc[p] = "send_append"
    /\ users' = mailbox_append(users, sending[p].recipient, FileRecord(sending[p].file))
    /\ delivered' = Append(delivered, Delivery(sending[p].recipient, sending[p].file))
    /\ last' = [req |-> [NoReq EXCEPT !.op = "send_file", !.token = sending[p].token,
                                      !.recipient = sending[p].recipient,
                                      !.file = sending[p].file],
                resp |-> [Resp(200, "") EXCEPT !.message = "File sent successfully!"]]
    /\ pc' = [pc EXCEPT ![p] = "idle"]
    /\ sending' = [sending EXCEPT ![p] = NoSend]
    /\ UNCHANGED <<users_collection, uploads, user, issued, signedUp, now, probe>>

\* the senders present alice's username as the token, or none; the readers
\* any registered username, or none
SenderTokens == {None, Raw("alice")}

ReaderTokens == {None, Raw("alice"), Raw("bob")}

RelayRecipients == {Raw("alice"), Raw("bob"), Raw("carol")}

RelayFiles ==
    { FileStorage(F_notes, "A"), FileStorage(F_notes, "B"),
      FileStorage(F_path, "A"), FileStorage(F_exe, "A") }

RelayDownloads == {F_notes, secure_filename(F_path)}

NextRelay ==
    \/ \E u \in Usernames : Register(u)
    \/ \E p \in Procs, t \in SenderTokens, r \in RelayRecipients, f \in RelayFiles :
          SendStart(p, t, r, f)
    \/ \E p \in Procs : SendAppend(p)
    \/ \E t \in ReaderTokens : Profile(t)
    \/ \E t \in ReaderTokens : ReceivedFiles(t)
    \/ \E f \in RelayDownloads : DownloadFile(f)

SpecRelay == Init /\ [][NextRelay]_vars

(* ============================== claims ================================ *)
Count(username) == Cardinality(Matches(users_collection, username))

Registered(username) == Matches(users_collection, username) # {}

AuthenticatedOps == {"profile", "send_file", "received_files"}

\* C1: under any interleaving of concurrent signups the credential store
\* never holds more than one user record for the same username.
C1_OneRecordPerUsername ==
    \A i, j \in 1..Len(users_collection) :
        users_collection[i].username = users_collection[j].username => i = j

\* C2: with one request at a time, a signup whose username is already in the
\* store is answered 400 "Username is already taken." and leaves the store
\* as it was: one record for that username, holding the id and the password
\* hash of the first signup.
C2_DuplicateSignupRejected ==
    [][ ( /\ last'.req.op = "signup"
          /\ last' # last
          /\ SignupModel([username |-> last'.req.username, password |-> last'.req.password])
          /\ Registered(last'.req.username) )
        => ( /\ last'.resp = HTTPException(400, "Username is already taken.")
             /\ users_collection' = users_collection
             /\ Cardinality(Matches(users_collection', last'.req.username)) = 1
             /\ \E s \in signedUp' :
                   /\ s.username = last'.req.username
                   /\ \A i \in Matches(users_collection', s.username) :
                         /\ StrOid(users_collection'[i]._id) = s.user_id
                         /\ verify_password(s.password, users_collection'[i].hashed_password) ) ]_vars

\* C2 witness: a signup for a registered username, with another password than
\* the first signup's, has been answered 400.
C2_Witness ==
    /\ last.req.op = "signup"
    /\ last.resp.status = 400
    /\ \E s \in signedUp : s.username = last.req.username /\ s.password # last.req.password

\* C3: after a successful signup(u, p), login(u, p) succeeds and returns a
\* token that verifies to the id of the record that signup created.
C3_LoginAfterSignup ==
    last.req.op = "login" =>
        \A s \in signedUp :
            (s.username = last.req.username /\ s.password = last.req.password) =>
                /\ last.resp.status = 200
                /\ verify_jwt(last.resp.token, now).ok
                /\ verify_jwt(last.resp.token, now).user_id = s.user_id

\* C4: a token login issued for user A is accepted by the auth gate of
\* profile, which answers 200 with A's username.
C4_IssuedTokenAuthenticates ==
    (last.req.op = "profile" /\ last.req.token \in issued) =>
        /\ last.resp.status = 200
        /\ \E i \in 1..Len(users_collection) :
              /\ StrOid(users_collection[i]._id) = last.req.token.user_id
              /\ last.resp.username = Raw(users_collection[i].username)

\* C5: a login whose username is not registered, or whose password is not the
\* password of any record of that username, is answered with the one 401
\* "Invalid username or password.", carries no token, and changes neither the
\* store, the mailboxes, the storage root nor the set of tokens issued.
C5_BadLoginRejected ==
    [][ ( /\ last'.req.op = "login"
          /\ last' # last
          /\ \A i \in Matches(users_collection, last'.req.username) :
                ~ (users_collection[i].hashed_password
                     = hashpw(last'.req.password, users_collection[i].hashed_password.salt)) )
        => ( /\ last'.resp = HTTPException(401, "Invalid username or password.")
             /\ last'.resp.token = None
             /\ UNCHANGED <<users_collection, users, uploads, issued, signedUp>> ) ]_vars

\* C5 witness: a login for a registered username with a wrong password has
\* been answered 401.
C5_Witness ==
    /\ last.req.op = "login"
    /\ Registered(last.req.username)
    /\ last.resp.status = 401

\* C6: profile, send_file and received_files called with no token, or with a
\* token login never issued, are answered 401 "Unauthorized" whatever the
\* other arguments are, and leave the store, the mailboxes and the storage
\* root unchanged.
C6_UnissuedTokenRejected ==
    [][ ( /\ last'.req.op \in AuthenticatedOps
          /\ last' # last
          /\ last'.req.token \notin issued )
        => ( /\ last'.resp = Resp(401, "Unauthorized")
             /\ UNCHANGED <<users_collection, users, uploads>> ) ]_vars

\* C6 witness: a send with a self-signed token, an unknown recipient and a
\* disallowed extension has been answered 401.
C6_Witness ==
    /\ last.req.op = "send_file"
    /\ last.req.token = ForgedToken(1)
    /\ last.req.recipient = Raw("carol")
    /\ last.req.file = FileStorage(F_exe, "A")
    /\ last.resp.status = 401

\* C7: once the configured duration has elapsed since a token was issued,
\* verifying it fails with "Token has expired.".
C7_TokenExpires ==
    ( /\ probe.verified
      /\ ~probe.altered
      /\ probe.verified_at >= probe.issued_at + TokenTTL )
    => ( ~probe.result.ok /\ probe.result.detail = "Token has expired." )

\* C8: verify_jwt(create_jwt(user_id)) returns a payload with that user_id,
\* and verifying a token whose signature differs from the issued one fails
\* with 401 instead of returning an id.
C8_JwtRoundTrip ==
    probe.verified =>
        IF probe.altered
        THEN ~probe.result.ok /\ probe.result.status = 401 /\ probe.result.user_id = NoOid
        ELSE probe.result.ok /\ probe.result.user_id = probe.user_id

\* C8 witness: a token carrying another user's signature under the right key
\* has been verified.
C8_Witness ==
    /\ probe.verified
    /\ probe.altered
    /\ probe.token.sig.key = SECRET_KEY
    /\ probe.token.sig # NoSig

\* C9: a send by a sender holding the token from login, to a registered
\* recipient, of a non-empty file with an allowed extension is answered 200
\* and appends one record with the sanitized filename to the end of the
\* recipient's mailbox.
C9_SendDelivers ==
    ( /\ last.req.op = "send_file"
      /\ last.req.token \in issued
      /\ Registered(last.req.recipient.text)
      /\ last.req.file.present
      /\ last.req.file.filename # <<>>
      /\ last.req.file.bytes # ""
      /\ allowed_file(last.req.file.filename) )
    => ( /\ last.resp.status = 200
         /\ last.req.recipient \in DOMAIN users
         /\ users[last.req.recipient].files # <<>>
         /\ users[last.req.recipient].files[Len(users[last.req.recipient].files)].filename
               = secure_filename(last.req.file.filename) )

\* C10: a send (by a logged-in sender to a registered recipient) of a file
\* whose name has no extension or one outside the allow-list is answered 400
\* "File not allowed", and the storage root and the mailboxes hold nothing
\* of it.
C10_ExtensionRejected ==
    ( /\ last.req.op = "send_file"
      /\ last.req.token \in issued
      /\ Registered(last.req.recipient.text)
      /\ last.req.file.present
      /\ last.req.file.filename # <<>>
      /\ ~allowed_file(last.req.file.filename) )
    => ( /\ last.resp.status = 400
         /\ last.resp.detail = "File not allowed"
         /\ PathJoin(UPLOAD_FOLDER, secure_filename(last.req.file.filename))
               \notin DOMAIN uploads )

\* C11: a send by a logged-in sender whose recipient_username names no
\* registered user is answered 400 "Recipient user not found"; nothing is
\* written to the storage root and no mailbox is changed.
C11_UnknownRecipientRejected ==
    ( /\ last.req.op = "send_file"
      /\ last.req.token \in issued
      /\ ~Registered(last.req.recipient.text) )
    => ( /\ last.resp.status = 400
         /\ last.resp.detail = "Recipient user not found"
         /\ DOMAIN uploads = {}
         /\ \A k \in DOMAIN users : users[k].files = <<>> )

\* C12: received_files called with the token login issued is answered 200
\* with the caller's mailbox in append order, which is the empty sequence
\* when nothing was delivered to the caller.
C12_ListReceived ==
    (last.req.op = "received_files" /\ last.req.token \in issued) =>
        /\ last.resp.status = 200
        /\ last.resp.files =
              ( IF last.req.token \in DOMAIN users
                THEN users[last.req.token].files ELSE <<>> )

C16_SignupValidated ==
    /\ \A s \in signedUp :
          /\ Len(s.username) >= 1
          /\ Len(s.username) <= 50
          /\ Len(s.password) >= 8
    /\ \A i \in 1..Len(users_collection) :
          /\ Len(users_collection[i].username) >= 1
          /\ Len(users_collection[i].username) <= 50
    /\ ( /\ last.req.op = "signup"
         /\ ( \/ Len(last.req.username) < 1
              \/ Len(last.req.username) > 50
              \/ Len(last.req.password) < 8 ) )
       => last.resp.status = 422

\* C17: send_file answers with the failure of the earliest failing check in
\* the order sender authentication, recipient existence, extension
\* allow-list, file supplied and non-empty, filename sanitization.
C17_CheckOrder ==
    last.req.op = "send_file" =>
        last.resp.detail \in
            ( IF last.req.token \notin issued
              THEN {"Unauthorized"}
              ELSE IF ~Registered(last.req.recipient.text)
              THEN {"Recipient user not found"}
              ELSE IF ~allowed_file(last.req.file.filename)
              THEN {"File not allowed"}
              ELSE IF ~last.req.file.present \/ last.req.file.bytes = ""
              THEN {"No file part", "No selected file"}
              ELSE IF secure_filename(last.req.file.filename) = <<>>
              THEN {"Invalid filename"}
              ELSE {""} )

\* the mailbox the deliveries ds make for recipient r: their records in the
\* order the sends completed
RECURSIVE MailboxOf(_, _)
MailboxOf(ds, r) ==
    IF ds = <<>> THEN <<>>
    ELSE ( IF Head(ds).recipient = r
           THEN <<[filename |-> Head(ds).filename,
                   filepath |-> PathJoin(UPLOAD_FOLDER, Head(ds).filename)]>>
           ELSE <<>> ) \o MailboxOf(Tail(ds), r)

IsPrefix(a, b) == Len(a) <= Len(b) /\ SubSeq(b, 1, Len(a)) = a

====
